---- MODULE Spec2Model ----
(***************************************************************************)
(* Model of the compile pipeline of the Git MCP server (src/main.py):      *)
(* path resolution, precondition checks, command construction, the child   *)
(* process run under a timeout and the normalisation of its output.        *)
(*                                                                         *)
(* Texts are TLA+ strings; a path is the sequence of its segments; a       *)
(* command is a sequence of strings.                                       *)
(*                                                                         *)
(* The handler blocks once, in subprocess.run.  CompileProject is the      *)
(* handler up to that call; SpawnFails, ChildExits and TimeoutExpires are  *)
(* the three ways the call ends, each with the rest of the handler.        *)
(*                                                                         *)
(* Spec is the whole handler over sample environments and outputs;         *)
(* SpecBuild is _build_command over every answer of the executable lookup; *)
(* SpecRun is _run_command over every captured output up to MaxTextLen.    *)
(***************************************************************************)
EXTENDS Integers, Sequences, FiniteSets, TLC

VARIABLES
    pc,        \* "idle" | "running" (blocked in subprocess.run) | "responded";
               \* "built" in SpecBuild
    request,   \* the CompileRequest being handled
    world,     \* what the filesystem and the environment answered to the handler
    pending,   \* the command and working directory handed to subprocess.run
    outcome,   \* what the child process did
    response,  \* the HTTP response of the handler
    steps,     \* the pipeline steps the handler performed, in order
    procs      \* processes started by the request that are still running

vars == <<pc, request, world, pending, outcome, response, steps, procs>>

----------------------------------------------------------------------------
(* Bounds of the model *)

\* longest extra_args list of a request
MaxArgs == 2
\* most segments in a project_path
MaxPathSegs == 2
\* longest captured stdout / stderr text (SpecRun)
MaxTextLen == 5
\* the stream bound of _normalize_maven_output (20000 in the source), scaled
StreamTailChars == 4
\* the summary's character bound (8000 in the source), scaled
SummaryTailChars == 3
\* the summary's line bound (200 in the source), scaled
SummaryTailLines == 2

----------------------------------------------------------------------------
(* Strings *)

StartsWith(a, p) == Len(a) >= Len(p) /\ SubSeq(a, 1, Len(p)) = p

\* a.startswith(tuple): some member of the tuple is a prefix
StartsWithAny(a, ps) == \E i \in 1..Len(ps) : StartsWith(a, ps[i])

IsPrefix(p, s) == Len(p) <= Len(s) /\ SubSeq(s, 1, Len(p)) = p

Char(s, i) == SubSeq(s, i, i)

\* the characters str.strip() removes, among those of the model's alphabet
Whitespace == {" ", "\n"}

RECURSIVE LStrip(_)
LStrip(s) ==
    IF s = "" THEN ""
    ELSE IF Char(s, 1) \in Whitespace THEN LStrip(SubSeq(s, 2, Len(s)))
    ELSE s

RECURSIVE RStrip(_)
RStrip(s) ==
    IF s = "" THEN ""
    ELSE IF Char(s, Len(s)) \in Whitespace THEN RStrip(SubSeq(s, 1, Len(s) - 1))
    ELSE s

Strip(s) == RStrip(LStrip(s))

\* str.splitlines(): lines end at "\n"; a final "\n" opens no further line
RECURSIVE SplitFrom(_, _)
SplitFrom(s, cur) ==
    IF s = "" THEN (IF cur = "" THEN <<>> ELSE <<cur>>)
    ELSE IF Char(s, 1) = "\n" THEN <<cur>> \o SplitFrom(SubSeq(s, 2, Len(s)), "")
    ELSE SplitFrom(SubSeq(s, 2, Len(s)), cur \o Char(s, 1))

SplitLines(s) == SplitFrom(s, "")

\* "\n".join(lines)
RECURSIVE JoinLines(_)
JoinLines(lines) ==
    IF lines = <<>> THEN ""
    ELSE IF Len(lines) = 1 THEN lines[1]
    ELSE lines[1] \o "\n" \o JoinLines(Tail(lines))

\* seq[-n:]
LastN(seq, n) ==
    IF Len(seq) <= n THEN seq ELSE SubSeq(seq, Len(seq) - n + 1, Len(seq))

\* all sequences over S of length at most n
RECURSIVE SeqsUpTo(_, _)
SeqsUpTo(S, n) ==
    IF n = 0 THEN {<<>>}
    ELSE SeqsUpTo(S, n - 1)
         \cup {Append(q, x) : q \in SeqsUpTo(S, n - 1), x \in S}

\* all texts over the alphabet A of length at most n
RECURSIVE TextsUpTo(_, _)
TextsUpTo(A, n) ==
    IF n = 0 THEN {""}
    ELSE TextsUpTo(A, n - 1) \cup {t \o c : t \in TextsUpTo(A, n - 1), c \in A}

----------------------------------------------------------------------------
(* Responses *)

NoResponse == [kind |-> "none"]

\* raise HTTPException(status_code, detail): `error` is the message's kind and
\* `arg` the value the message interpolates
HTTPException(status, error, arg) ==
    [kind |-> "error", status |-> status, error |-> error, arg |-> arg]

----------------------------------------------------------------------------
(* PathResolver *)

REPO_ROOT == <<"repo">>

\* the one symbolic link of the modelled tree: REPO_ROOT/link -> /etc
SymlinkAt == <<"repo", "link">>
SymlinkTarget == <<"etc">>

\* Path.resolve(): "." is dropped, ".." pops the resolved prefix (the root's
\* parent is the root), a symbolic link is replaced by its target
RECURSIVE ResolveFrom(_, _)
ResolveFrom(cur, rest) ==
    IF rest = <<>> THEN cur
    ELSE LET s == Head(rest) IN
         IF s = "." THEN ResolveFrom(cur, Tail(rest))
         ELSE IF s = ".."
              THEN ResolveFrom(IF cur = <<>> THEN <<>>
                               ELSE SubSeq(cur, 1, Len(cur) - 1), Tail(rest))
         ELSE LET nxt == Append(cur, s) IN
              ResolveFrom(IF nxt = SymlinkAt THEN SymlinkTarget ELSE nxt, Tail(rest))

Resolve(path) == ResolveFrom(<<>>, path)

\* root / rel: an absolute rel replaces root
JoinPath(root, rel) == IF rel.abs THEN rel.segs ELSE root \o rel.segs

SafeJoin_Lexical(root, rel) ==
    LET target == JoinPath(root, rel) IN
    [ok |-> IsPrefix(root, target), target |-> target]

SafeJoin(root, rel) ==
    LET target == Resolve(JoinPath(root, rel)) IN
    [ok |-> ~(~IsPrefix(root, target) /\ target # root), target |-> target]

----------------------------------------------------------------------------
(* ArgumentValidator *)

SAFE_EXTRA_ARGS_PREFIXES == <<"-D", "--no-daemon", "--stacktrace", "--info", "--debug">>

IsSafeArg(a) == StartsWithAny(a, SAFE_EXTRA_ARGS_PREFIXES)

ValidateExtraArgs_AcceptAll(args) == [ok |-> TRUE, bad |-> ""]

\* the first argument matching no prefix fails the list
ValidateExtraArgs(args) ==
    IF \A i \in 1..Len(args) : IsSafeArg(args[i])
    THEN [ok |-> TRUE, bad |-> ""]
    ELSE LET i == CHOOSE k \in 1..Len(args) :
                      /\ ~IsSafeArg(args[k])
                      /\ \A j \in 1..(k - 1) : IsSafeArg(args[j])
         IN [ok |-> FALSE, bad |-> args[i]]

----------------------------------------------------------------------------
(* ExecutableSelector *)

\* os.getenv: <<>> is an unset variable, <<v>> a variable set to v.
\* `if maven_cmd:` an unset or empty variable is not a configured override
EnvTruthy(v) == v # <<>> /\ v[1] # ""

\* str(Path(s)): trailing slashes are dropped
RECURSIVE PathStr(_)
PathStr(s) ==
    IF Len(s) > 1 /\ Char(s, Len(s)) = "/" THEN PathStr(SubSeq(s, 1, Len(s) - 1))
    ELSE s

\* a selection: the command prefix, or the HTTPException raised
Selected(base) == [ok |-> TRUE, base |-> base, err |-> NoResponse]
NotSelected(err) == [ok |-> FALSE, base |-> <<>>, err |-> err]

PickGradleExecutable(w) ==
    IF w.gradlew THEN Selected(<<"./gradlew">>)
    ELSE IF w.gradlewBat THEN Selected(<<"gradlew.bat">>)
    ELSE IF w.whichGradle THEN Selected(<<"gradle">>)
    ELSE NotSelected(HTTPException(500, "GradleNotFound", ""))

PickMavenExecutable_FallBack(w) ==
    IF EnvTruthy(w.mavenCmd) /\ w.mavenCmdExists
    THEN Selected(<<PathStr(w.mavenCmd[1])>>)
    ELSE IF w.whichMvn THEN Selected(<<"mvn">>)
    ELSE NotSelected(HTTPException(500, "MavenNotFound", ""))

PickMavenExecutable(w) ==
    IF EnvTruthy(w.mavenCmd)
    THEN IF w.mavenCmdExists
         THEN Selected(<<PathStr(w.mavenCmd[1])>>)
         ELSE NotSelected(HTTPException(500, "MavenCmdMissing", w.mavenCmd[1]))
    ELSE IF w.whichMvn THEN Selected(<<"mvn">>)
    ELSE NotSelected(HTTPException(500, "MavenNotFound", ""))

\* the wrapper probes of _build_command, then _pick_maven_executable
MavenBase(w) ==
    IF w.mvnw THEN Selected(<<"./mvnw">>)
    ELSE IF w.mvnwCmd THEN Selected(<<"mvnw.cmd">>)
    ELSE PickMavenExecutable(w)

----------------------------------------------------------------------------
(* CommandBuilder *)

Tools == {"maven", "gradle"}
Goals == {"test-compile", "test", "compile"}

GoalArgs_Swapped(tool, goal) ==
    IF tool = "maven" THEN <<"-e", goal>>
    ELSE IF goal = "test-compile" THEN <<"classes">>
    ELSE IF goal = "test" THEN <<"test">>
    ELSE <<"testClasses">>

\* what follows the executable for a (tool, goal) of the table; <<>> for a
\* pair outside it
GoalArgs(tool, goal) ==
    IF tool = "maven"
    THEN IF goal = "test-compile" THEN <<"-e", "test-compile">>
         ELSE IF goal = "test" THEN <<"-e", "test">>
         ELSE IF goal = "compile" THEN <<"-e", "compile">>
         ELSE <<>>
    ELSE IF tool = "gradle"
    THEN IF goal = "test-compile" THEN <<"testClasses">>
         ELSE IF goal = "test" THEN <<"test">>
         ELSE IF goal = "compile" THEN <<"classes">>
         ELSE <<>>
    ELSE <<>>

Built(cmd) == [ok |-> TRUE, cmd |-> cmd, err |-> NoResponse, looked |-> TRUE]
NotBuilt(err, looked) == [ok |-> FALSE, cmd |-> <<>>, err |-> err, looked |-> looked]

\* `looked` tells whether the executable lookup was reached
BuildCommand(tool, goal, w, extra_args) ==
    LET v == ValidateExtraArgs(extra_args) IN
    IF ~v.ok THEN NotBuilt(HTTPException(400, "UnsafeArgument", v.bad), FALSE)
    ELSE IF tool \notin Tools
    THEN NotBuilt(HTTPException(400, "UnsupportedGoal", goal), FALSE)
    ELSE LET sel == IF tool = "maven" THEN MavenBase(w) ELSE PickGradleExecutable(w) IN
         IF ~sel.ok THEN NotBuilt(sel.err, TRUE)
         ELSE IF GoalArgs(tool, goal) = <<>>
         THEN NotBuilt(HTTPException(400, "UnsupportedGoal", goal), TRUE)
         ELSE Built(sel.base \o GoalArgs(tool, goal) \o extra_args)

----------------------------------------------------------------------------
(* OutputNormalizer *)

\* A captured stream is a Python value: a str, a bytes or None
Str(v) == [t |-> "str", v |-> v]
Bytes(v) == [t |-> "bytes", v |-> v]
None == [t |-> "none", v |-> ""]

\* Python truth of a captured stream: None and the empty text are false
Truthy(x) == x.t # "none" /\ x.v # ""

\* x or d
Or(x, d) == IF Truthy(x) THEN x ELSE d

Tail_Leading(text, max_chars) ==
    IF ~Truthy(text) THEN Str("")
    ELSE [t |-> text.t,
          v |-> IF Len(text.v) <= max_chars THEN text.v
                ELSE SubSeq(text.v, 1, max_chars)]

\* _tail: text[-max_chars:], and "" for a false text
Tail_(text, max_chars) ==
    IF ~Truthy(text) THEN Str("")
    ELSE [t |-> text.t,
          v |-> IF Len(text.v) <= max_chars THEN text.v
                ELSE SubSeq(text.v, Len(text.v) - max_chars + 1, Len(text.v))]

\* x.strip() keeps the type of x
StripT(x) == [t |-> x.t, v |-> Strip(x.v)]

\* combined = stderr.strip() if stderr.strip() else stdout.strip()
Combined_PreferStdout(stdout, stderr) ==
    IF Truthy(StripT(stdout)) THEN StripT(stdout) ELSE StripT(stderr)

Combined(stdout, stderr) ==
    IF Truthy(StripT(stderr)) THEN StripT(stderr) ELSE StripT(stdout)

\* summary = "\n".join(combined.splitlines()[-200:]) if combined else ""
SummaryOf(combined, max_lines) ==
    IF Truthy(combined)
    THEN Str(JoinLines(LastN(SplitLines(combined.v), max_lines)))
    ELSE Str("")

\* _normalize_maven_output; str.join raises TypeError on the lines of a bytes
NormalizeMavenOutput(stdout0, stderr0) ==
    LET stdout   == Or(stdout0, Str(""))
        stderr   == Or(stderr0, Str(""))
        combined == Combined(stdout, stderr)
    IN  IF Truthy(combined) /\ combined.t = "bytes"
        THEN [raised |-> TRUE, exc |-> "TypeError",
              stdout |-> Str(""), stderr |-> Str(""), summary |-> Str("")]
        ELSE [raised |-> FALSE, exc |-> "",
              stdout  |-> Tail_(stdout, StreamTailChars),
              stderr  |-> Tail_(stderr, StreamTailChars),
              summary |-> Tail_(SummaryOf(combined, SummaryTailLines), SummaryTailChars)]

----------------------------------------------------------------------------
(* ProcessRunner *)

TIMEOUT_RETURNCODE == 124

\* what subprocess.run meets: the child exits within the timeout, the timeout
\* expires first, or the executable cannot be started
Exited(code, out, err, children) ==
    [kind |-> "exit", code |-> code, stdout |-> Str(out), stderr |-> Str(err),
     children |-> children]
TimedOut(out, err, children) ==
    [kind |-> "timeout", code |-> 0, stdout |-> out, stderr |-> err,
     children |-> children]
SpawnFailed(exc) ==
    [kind |-> "nospawn", code |-> 0, stdout |-> None, stderr |-> None,
     children |-> {}, exc |-> exc]
NoOutcome == [kind |-> "none"]

\* TimeoutExpired.stdout / .stderr under text=True: on POSIX the bytes read
\* so far, or None when nothing was read; on Windows the text communicate()
\* returns after the kill
Partial(posix, v) ==
    IF posix THEN (IF v = "" THEN None ELSE Bytes(v)) ELSE Str(v)

Result(ok, returncode, cmd, cwd, n, summary) ==
    [kind |-> "result", ok |-> ok, returncode |-> returncode, command |-> cmd,
     cwd |-> cwd, stdout |-> n.stdout, stderr |-> n.stderr,
     error_summary |-> summary]

Raised(exc) == [kind |-> "raised", exc |-> exc]

CompletedSummary_Always(returncode, summary) == summary

\* "error_summary": "" if p.returncode == 0 else summary
CompletedSummary(returncode, summary) ==
    IF returncode = 0 THEN Str("") ELSE summary

\* _run_command once subprocess.run has returned or raised TimeoutExpired
RunCommand(cmd, cwd, o) ==
    IF o.kind = "exit"
    THEN LET n == NormalizeMavenOutput(o.stdout, o.stderr) IN
         IF n.raised THEN Raised(n.exc)
         ELSE Result(o.code = 0, o.code, cmd, cwd, n,
                     CompletedSummary(o.code, n.summary))
    ELSE IF o.kind = "timeout"
    THEN LET n == NormalizeMavenOutput(Or(o.stdout, Str("")), Or(o.stderr, Str("TIMEOUT"))) IN
         IF n.raised THEN Raised(n.exc)
         ELSE Result(FALSE, TIMEOUT_RETURNCODE, cmd, cwd, n,
                     Or(n.summary, Str("TIMEOUT")))
    ELSE Raised(o.exc)

\* the except clauses of compile_project
HandlerResponse(r) ==
    IF r.kind = "result" THEN r
    ELSE IF r.exc = "FileNotFoundError"
    THEN HTTPException(500, "BuildToolNotFound", r.exc)
    ELSE HTTPException(500, "Crashed", r.exc)

----------------------------------------------------------------------------
(* Requests and the environment they meet *)

Segments == {"..", "mod-a", "link"}

ProjectPaths ==
    {[abs |-> a, segs |-> q] : a \in BOOLEAN, q \in SeqsUpTo(Segments, MaxPathSegs)}

ArgChoices == {"-DskipTests=true", "--info", "--unsafe-flag", "-d"}

ArgLists == SeqsUpTo(ArgChoices, MaxArgs)

Requests ==
    [tool : Tools, goal : Goals, project_path : ProjectPaths, extra_args : ArgLists]

NoRequest == [kind |-> "none"]

MavenCmdValues == {<<>>, <<"">>, <<"/opt/maven/bin/mvn">>, <<"/opt/maven/bin/mvn/">>}

\* the answers of the filesystem and of the environment to one request:
\* cwd.exists(), (cwd / name).exists(), os.getenv("MAVEN_CMD"),
\* Path(maven_cmd).exists(), shutil.which(name)
Worlds ==
    [cwdExists : BOOLEAN, pom : BOOLEAN, mvnw : BOOLEAN, mvnwCmd : BOOLEAN,
     gradlew : BOOLEAN, gradlewBat : BOOLEAN, mavenCmd : MavenCmdValues,
     mavenCmdExists : BOOLEAN, whichMvn : BOOLEAN, whichGradle : BOOLEAN]

Bare ==
    [cwdExists |-> FALSE, pom |-> FALSE, mvnw |-> FALSE, mvnwCmd |-> FALSE,
     gradlew |-> FALSE, gradlewBat |-> FALSE, mavenCmd |-> <<>>,
     mavenCmdExists |-> FALSE, whichMvn |-> FALSE, whichGradle |-> FALSE]

\* a project directory with pom.xml and the wrapper scripts
WrapperWorld ==
    [Bare EXCEPT !.cwdExists = TRUE, !.pom = TRUE, !.mvnw = TRUE,
                 !.gradlew = TRUE, !.whichMvn = TRUE]

\* the environments of Spec: no directory; a directory without or with a
\* pom.xml and no build tool; tools on the search path; wrapper scripts; a
\* MAVEN_CMD naming a missing file
SampleWorlds ==
    { Bare,
      [Bare EXCEPT !.cwdExists = TRUE],
      [Bare EXCEPT !.cwdExists = TRUE, !.pom = TRUE],
      [Bare EXCEPT !.cwdExists = TRUE, !.whichMvn = TRUE, !.whichGradle = TRUE],
      [Bare EXCEPT !.cwdExists = TRUE, !.pom = TRUE, !.whichMvn = TRUE,
                   !.whichGradle = TRUE],
      WrapperWorld,
      [Bare EXCEPT !.cwdExists = TRUE, !.pom = TRUE, !.whichMvn = TRUE,
                   !.mavenCmd = <<"/opt/maven/bin/mvn">>] }

\* the environments of SpecBuild: every answer to the executable lookup, in an
\* existing project directory
ToolWorlds == {w \in Worlds : w.cwdExists /\ w.pom}

NoWorld == [kind |-> "none"]
NoPending == [kind |-> "none"]

SampleTexts == {"", "e"}
TextAlphabet == {"e", "\n"}
AllTexts == TextsUpTo(TextAlphabet, MaxTextLen)
ExitCodes == {0, 1, -9}
\* the processes a request starts: the build tool and a child of it
ChildSets == {{}, {"child"}}

----------------------------------------------------------------------------
(* compile_project *)

Preconditions_NoPom(tool, cwd, w) ==
    IF ~w.cwdExists
    THEN [ok |-> FALSE, steps |-> <<"dir_exists">>,
          err |-> HTTPException(404, "ProjectPathNotFound", cwd)]
    ELSE [ok |-> TRUE, steps |-> <<"dir_exists">>, err |-> NoResponse]

\* the two checks between _safe_join and _build_command
Preconditions(tool, cwd, w) ==
    IF ~w.cwdExists
    THEN [ok |-> FALSE, steps |-> <<"dir_exists">>,
          err |-> HTTPException(404, "ProjectPathNotFound", cwd)]
    ELSE IF tool = "maven" /\ ~w.pom
    THEN [ok |-> FALSE, steps |-> <<"dir_exists", "pom_exists">>,
          err |-> HTTPException(400, "PomNotFound", cwd)]
    ELSE [ok |-> TRUE,
          steps |-> IF tool = "maven" THEN <<"dir_exists", "pom_exists">>
                    ELSE <<"dir_exists">>,
          err |-> NoResponse]

Rejected(steps_, err) ==
    [run |-> FALSE, steps |-> steps_, resp |-> err, pending |-> NoPending]

\* compile_project up to its call of subprocess.run
CompileStart(req, w) ==
    LET sj == SafeJoin(REPO_ROOT, req.project_path) IN
    IF ~sj.ok
    THEN Rejected(<<"resolve">>, HTTPException(400, "PathTraversal", req.project_path))
    ELSE LET pre == Preconditions(req.tool, sj.target, w) IN
    IF ~pre.ok
    THEN Rejected(<<"resolve">> \o pre.steps, pre.err)
    ELSE LET b   == BuildCommand(req.tool, req.goal, w, req.extra_args)
             sofar == <<"resolve">> \o pre.steps \o <<"validate_args">>
                      \o (IF b.looked THEN <<"exe_lookup">> ELSE <<>>)
         IN
    IF ~b.ok
    THEN Rejected(sofar, b.err)
    ELSE [run |-> TRUE, steps |-> Append(sofar, "spawn"), resp |-> NoResponse,
          pending |-> [kind |-> "command", cmd |-> b.cmd, cwd |-> sj.target]]

\* POST /git-mcp/compile, up to the response or to the blocking subprocess.run
CompileProject ==
    /\ pc = "idle"
    /\ \E req \in Requests, w \in SampleWorlds :
         LET c == CompileStart(req, w) IN
         /\ request' = req
         /\ world' = w
         /\ pending' = c.pending
         /\ steps' = c.steps
         /\ response' = c.resp
         /\ pc' = IF c.run THEN "running" ELSE "responded"
    /\ UNCHANGED <<outcome, procs>>

\* subprocess.run cannot start the executable: Popen raises, no process exists
SpawnFails ==
    /\ pc = "running"
    /\ \E exc \in {"FileNotFoundError", "PermissionError"} :
         /\ outcome' = SpawnFailed(exc)
         /\ response' = HandlerResponse(RunCommand(pending.cmd, pending.cwd, SpawnFailed(exc)))
    /\ procs' = {}
    /\ pc' = "responded"
    /\ UNCHANGED <<request, world, pending, steps>>

\* the child exits within the timeout; subprocess.run returns. Processes the
\* child started may outlive it.
ChildExits(T) ==
    /\ pc = "running"
    /\ \E code \in ExitCodes, out \in T, err \in T, children \in ChildSets :
         LET o == Exited(code, out, err, children) IN
         /\ outcome' = o
         /\ response' = HandlerResponse(RunCommand(pending.cmd, pending.cwd, o))
         /\ procs' = children
    /\ steps' = Append(steps, "wait")
    /\ pc' = "responded"
    /\ UNCHANGED <<request, world, pending>>

\* the timeout expires: subprocess.run kills the process it started, and that
\* process only (no process group or session is set up, no child is looked
\* for), then raises TimeoutExpired
TimeoutExpires(T) ==
    /\ pc = "running"
    /\ \E posix \in BOOLEAN, out \in T, err \in T, children \in ChildSets :
         LET o == TimedOut(Partial(posix, out), Partial(posix, err), children) IN
         /\ outcome' = o
         /\ response' = HandlerResponse(RunCommand(pending.cmd, pending.cwd, o))
         /\ procs' = ({"build"} \cup children) \ {"build"}
    /\ steps' = Append(steps, "kill")
    /\ pc' = "responded"
    /\ UNCHANGED <<request, world, pending>>

\* the response leaves; nothing of the request is kept
SendResponse ==
    /\ pc = "responded"
    /\ pc' = "idle"
    /\ request' = NoRequest
    /\ world' = NoWorld
    /\ pending' = NoPending
    /\ outcome' = NoOutcome
    /\ response' = NoResponse
    /\ steps' = <<>>
    /\ procs' = {}

Init ==
    /\ pc = "idle"
    /\ request = NoRequest
    /\ world = NoWorld
    /\ pending = NoPending
    /\ outcome = NoOutcome
    /\ response = NoResponse
    /\ steps = <<>>
    /\ procs = {}

Next ==
    \/ CompileProject
    \/ SpawnFails
    \/ ChildExits(SampleTexts)
    \/ TimeoutExpires(SampleTexts)
    \/ SendResponse

Spec == Init /\ [][Next]_vars

----------------------------------------------------------------------------
(* _build_command alone, over every answer of the executable lookup;       *)
(* pc = "built" once it has returned or raised                             *)

SampleCwd == <<"repo", "mod-a">>
SamplePath == [abs |-> FALSE, segs |-> <<"mod-a">>]

BuildCommandCall ==
    /\ pc = "idle"
    /\ \E tool \in Tools, goal \in Goals, w \in ToolWorlds, args \in ArgLists :
         LET b == BuildCommand(tool, goal, w, args) IN
         /\ request' = [tool |-> tool, goal |-> goal, project_path |-> SamplePath,
                        extra_args |-> args]
         /\ world' = w
         /\ pending' = IF b.ok
                       THEN [kind |-> "command", cmd |-> b.cmd, cwd |-> SampleCwd]
                       ELSE NoPending
         /\ response' = b.err
    /\ pc' = "built"
    /\ UNCHANGED <<outcome, steps, procs>>

NextBuild == BuildCommandCall

SpecBuild == Init /\ [][NextBuild]_vars

----------------------------------------------------------------------------
(* _run_command alone, over every captured stdout and stderr *)

SampleRequest ==
    [tool |-> "maven", goal |-> "test-compile", project_path |-> SamplePath,
     extra_args |-> <<"-DskipTests=true">>]

InitRun ==
    /\ pc = "running"
    /\ request = SampleRequest
    /\ world = WrapperWorld
    /\ pending = [kind |-> "command",
                  cmd |-> <<"./mvnw", "-e", "test-compile", "-DskipTests=true">>,
                  cwd |-> SampleCwd]
    /\ outcome = NoOutcome
    /\ response = NoResponse
    /\ steps = <<"resolve", "dir_exists", "pom_exists", "validate_args",
                 "exe_lookup", "spawn">>
    /\ procs = {}

NextRun ==
    \/ ChildExits(AllTexts)
    \/ TimeoutExpires(AllTexts)

SpecRun == InitRun /\ [][NextRun]_vars

----------------------------------------------------------------------------
(* Vocabulary of the properties *)

\* a request is being handled or has been answered
Handling == pc \in {"running", "responded"}

\* the canonical target of the path lies outside the root's subtree
Escapes(rel) ==
    LET target == Resolve(JoinPath(REPO_ROOT, rel)) IN
    ~(\E n \in 0..Len(target) : SubSeq(target, 1, n) = REPO_ROOT)

UnsafeIndexes(args) ==
    {i \in 1..Len(args) :
        \A k \in 1..Len(SAFE_EXTRA_ARGS_PREFIXES) :
            ~StartsWith(args[i], SAFE_EXTRA_ARGS_PREFIXES[k])}

FirstUnsafe(args) ==
    args[CHOOSE i \in UnsafeIndexes(args) : \A j \in UnsafeIndexes(args) : i <= j]

IsClientError(r) == r.kind = "error" /\ r.status \in 400..499

Did(step) == \E i \in 1..Len(steps) : steps[i] = step

\* the directory and manifest preconditions of the request hold
PreconditionsHold ==
    world.cwdExists /\ (request.tool = "maven" => world.pom)

----------------------------------------------------------------------------
(* C1 *)

\* C1, as stated: every request with an extra argument outside the allowed
\* prefixes is answered with the UnsafeArgument error naming that argument, and
\* spawns nothing.
C1_AlwaysUnsafeArgument ==
    (Handling /\ UnsafeIndexes(request.extra_args) # {}) =>
        /\ pc = "responded"
        /\ response.kind = "error"
        /\ response.error = "UnsafeArgument"
        /\ response.arg = FirstUnsafe(request.extra_args)
        /\ ~Did("spawn")

\* C1, amended: a request with an extra argument outside the allowed prefixes
\* is answered with a client error and never reaches the executable lookup or
\* the spawn; the error is UnsafeArgument, naming the first such argument,
\* when the path stays inside the root and the directory and manifest
\* preconditions hold, and otherwise the error of the earlier failed check.
C1_UnsafeArgsNeverSpawn ==
    (Handling /\ UnsafeIndexes(request.extra_args) # {}) =>
        /\ pc = "responded"
        /\ IsClientError(response)
        /\ ~Did("exe_lookup") /\ ~Did("spawn")
        /\ procs = {}
        /\ (~Escapes(request.project_path) /\ PreconditionsHold) =>
              /\ response.status = 400
              /\ response.error = "UnsafeArgument"
              /\ response.arg = FirstUnsafe(request.extra_args)
        /\ (Escapes(request.project_path) \/ ~PreconditionsHold) =>
              response.error \in {"PathTraversal", "ProjectPathNotFound", "PomNotFound"}

\* a request whose second argument is the offending one is rejected for it
C1_Witness ==
    /\ pc = "responded"
    /\ Len(request.extra_args) = 2
    /\ UnsafeIndexes(request.extra_args) = {2}
    /\ response.kind = "error"
    /\ response.error = "UnsafeArgument"
    /\ response.arg = "--unsafe-flag"
    /\ request.tool = "gradle"

----------------------------------------------------------------------------
(* C2 *)

\* C2: a request whose project_path resolves outside the root is answered with
\* the PathTraversal client error, and the resolution is the only pipeline step
\* performed: no existence check, manifest check, executable lookup or spawn.
C2_TraversalRejectedFirst ==
    (Handling /\ Escapes(request.project_path)) =>
        /\ pc = "responded"
        /\ response.kind = "error"
        /\ response.status = 400
        /\ response.error = "PathTraversal"
        /\ response.arg = request.project_path
        /\ steps = <<"resolve">>
        /\ procs = {}

\* a relative path escaping through ".." in an environment where the build
\* could otherwise run
C2_Witness ==
    /\ pc = "responded"
    /\ ~request.project_path.abs
    /\ request.project_path.segs = <<"..", "mod-a">>
    /\ Escapes(request.project_path)
    /\ world.cwdExists /\ world.pom /\ world.whichMvn
    /\ request.extra_args = <<>>
    /\ response.error = "PathTraversal"

----------------------------------------------------------------------------
(* C3 *)

\* C3: a process is spawned only when the project directory exists and, for
\* maven, holds a pom.xml; a request violating either ends with a client error
\* without executable lookup or spawn.
C3_PreconditionsBeforeSpawn ==
    Handling =>
        /\ (Did("spawn") \/ pc = "running" \/ procs # {}) => PreconditionsHold
        /\ ~PreconditionsHold =>
              /\ pc = "responded"
              /\ IsClientError(response)
              /\ ~Did("exe_lookup") /\ ~Did("spawn")
              /\ pending = NoPending

\* a maven request inside the root, in an existing directory without pom.xml
C3_Witness ==
    /\ pc = "responded"
    /\ request.tool = "maven"
    /\ ~Escapes(request.project_path)
    /\ world.cwdExists /\ ~world.pom /\ world.whichMvn
    /\ response.kind = "error"
    /\ response.status = 400
    /\ response.error = "PomNotFound"

----------------------------------------------------------------------------
(* C4 *)

HasWrapper == world.mvnw \/ world.mvnwCmd

\* MAVEN_CMD is set to a non-empty path
OverrideConfigured == world.mavenCmd # <<>> /\ world.mavenCmd[1] # ""

\* x is the path v, written without trailing slash
IsOverridePath(x, v) == x = v \/ x \o "/" = v

ArgsAccepted == UnsafeIndexes(request.extra_args) = {}

----------------------------------------------------------------------------
(* C5 *)

\* the subcommand table of the specification
TableSubcommand(tool, goal) ==
    CASE tool = "maven"  /\ goal = "compile"      -> <<"-e", "compile">>
      [] tool = "maven"  /\ goal = "test-compile" -> <<"-e", "test-compile">>
      [] tool = "maven"  /\ goal = "test"         -> <<"-e", "test">>
      [] tool = "gradle" /\ goal = "compile"      -> <<"classes">>
      [] tool = "gradle" /\ goal = "test-compile" -> <<"testClasses">>
      [] tool = "gradle" /\ goal = "test"         -> <<"test">>

ExecutablesOf(tool) ==
    IF tool = "maven" THEN {"./mvnw", "mvnw.cmd", "mvn", "/opt/maven/bin/mvn"}
    ELSE {"./gradlew", "gradlew.bat", "gradle"}

\* C5: a built command is one executable of the tool, then the subcommand the
\* table gives the (tool, goal) pair (with -e before it for maven), then the
\* extra arguments as the caller ordered them, and nothing else.
C5_CommandShape ==
    (pc = "built" /\ pending.kind = "command") =>
        LET cmd == pending.cmd
            sub == TableSubcommand(request.tool, request.goal)
        IN  /\ Len(cmd) = 1 + Len(sub) + Len(request.extra_args)
            /\ cmd[1] \in ExecutablesOf(request.tool)
            /\ SubSeq(cmd, 2, 1 + Len(sub)) = sub
            /\ SubSeq(cmd, 2 + Len(sub), Len(cmd)) = request.extra_args

\* the end-to-end example: maven test-compile, a wrapper, one -D argument
C5_Witness ==
    /\ pc = "built"
    /\ request.tool = "maven" /\ request.goal = "test-compile"
    /\ request.extra_args = <<"-DskipTests=true">>
    /\ world.mvnw
    /\ pending.kind = "command"
    /\ pending.cmd = <<"./mvnw", "-e", "test-compile", "-DskipTests=true">>

----------------------------------------------------------------------------
(* Vocabulary of the output properties *)

\* x has a character that is not whitespace
HasInk(x) == \E i \in 1..Len(x) : Char(x, i) \notin {" ", "\n"}

\* s is exactly the last min(Len(x), n) characters of x
IsLastChars(s, x, n) ==
    /\ Len(s) = (IF Len(x) <= n THEN Len(x) ELSE n)
    /\ SubSeq(x, Len(x) - Len(s) + 1, Len(x)) = s

\* the index of the last character of x that is not whitespace (0: none)
InkEnd(x) ==
    IF HasInk(x)
    THEN CHOOSE j \in 1..Len(x) :
            /\ Char(x, j) \notin {" ", "\n"}
            /\ \A k \in (j + 1)..Len(x) : Char(x, k) \in {" ", "\n"}
    ELSE 0

\* the index of the first character of x that is not whitespace (1: none)
InkStart(x) ==
    IF HasInk(x)
    THEN CHOOSE j \in 1..Len(x) :
            /\ Char(x, j) \notin {" ", "\n"}
            /\ \A k \in 1..(j - 1) : Char(x, k) \in {" ", "\n"}
    ELSE 1

\* the length of x without its leading and trailing whitespace
InkLen(x) == InkEnd(x) - InkStart(x) + 1

\* s is a run of characters of x that ends with x's last non-whitespace one
EndsTheInkOf(s, x) ==
    /\ Len(s) <= InkEnd(x)
    /\ SubSeq(x, InkEnd(x) - Len(s) + 1, InkEnd(x)) = s

Newlines(x) == Cardinality({i \in 1..Len(x) : Char(x, i) = "\n"})

\* the process ran to completion with a nonzero exit code
FailedRun == pc = "responded" /\ outcome.kind = "exit" /\ outcome.code # 0

\* the stream the summary of a failed run has to come from
SummarySource ==
    IF HasInk(outcome.stderr.v) THEN outcome.stderr.v ELSE outcome.stdout.v

----------------------------------------------------------------------------
(* C6 *)

\* C6, as stated: after a nonzero exit the error summary is non-empty, and is
\* taken from stderr when stderr is non-empty, else from stdout.
C6_SummaryAlwaysNonEmpty ==
    FailedRun =>
        /\ response.kind = "result"
        /\ response.error_summary.v # ""
        /\ EndsTheInkOf(response.error_summary.v,
                        IF outcome.stderr.v # "" THEN outcome.stderr.v
                        ELSE outcome.stdout.v)

\* C6, amended: after a nonzero exit the error summary is taken from stderr
\* when stderr has a non-whitespace character, else from stdout, and it is
\* non-empty exactly when that stream has a non-whitespace character (so it is
\* empty when both streams are empty or blank).
C6_SummaryFromInkedStream ==
    FailedRun =>
        /\ response.kind = "result"
        /\ EndsTheInkOf(response.error_summary.v, SummarySource)
        /\ (response.error_summary.v # "") <=> HasInk(SummarySource)
        /\ (~HasInk(outcome.stderr.v) /\ ~HasInk(outcome.stdout.v)) =>
              response.error_summary.v = ""

\* a failed run whose stderr is blank but not empty: the summary is stdout's
C6_Witness ==
    /\ FailedRun
    /\ outcome.stderr.v = "\n"
    /\ outcome.stdout.v = "ee"
    /\ response.kind = "result"
    /\ response.error_summary.v = "ee"

----------------------------------------------------------------------------
(* C7 *)

\* C7: a run that exceeds the timeout ends with a structured result with
\* returncode 124 and ok false, holding the trailing part of the stdout and
\* stderr captured before the kill, stderr being the TIMEOUT marker when the
\* process wrote none.
C7_TimeoutIsStructuredResult ==
    (pc = "responded" /\ outcome.kind = "timeout") =>
        /\ response.kind = "result"
        /\ response.returncode = 124
        /\ response.ok = FALSE
        /\ IsLastChars(response.stdout.v, outcome.stdout.v, StreamTailChars)
        /\ outcome.stderr.v # "" =>
              IsLastChars(response.stderr.v, outcome.stderr.v, StreamTailChars)
        /\ outcome.stderr.v = "" =>
              IsLastChars(response.stderr.v, "TIMEOUT", StreamTailChars)

----------------------------------------------------------------------------
(* C8 *)

----------------------------------------------------------------------------
(* C9 *)

\* C9: after a timeout result no process the request started is running.
C9_TimeoutLeavesNoProcess ==
    (pc = "responded" /\ response.kind = "result" /\ response.returncode = 124) =>
        procs = {}

----------------------------------------------------------------------------
(* C10 *)

====
